---- MODULE Spec2Model ----
(***************************************************************************)
(* Model of src/main.py: a sequential ETL script that loads rooms and      *)
(* students into a MySQL database, runs four aggregate reports and writes  *)
(* them as JSON or XML.                                                    *)
(*                                                                         *)
(* The database server is an external collaborator; it is modelled by the  *)
(* constraints that DataBaseEngine.TABLES declares (primary keys, the      *)
(* unique room name, NOT NULL columns, the room_fk foreign key) and by the *)
(* relational meaning of the four SELECT statements of SqlQuery.           *)
(*                                                                         *)
(* Conventions                                                             *)
(*   - Python None is the empty tuple <<>>; an optional value v that is    *)
(*     present is the one-element tuple <<v>>.                             *)
(*   - A birthday is a year; TIMESTAMPDIFF(YEAR, birthday, CURDATE()) is   *)
(*     CurYear - birthday.                                                 *)
(***************************************************************************)
EXTENDS Integers, Sequences, FiniteSets, TLC

VARIABLES
    pc,              \* position of the running scenario / of main()
    rooms,           \* parsed rooms file: sequence of mappings
    students,        \* parsed students file: sequence of mappings
    db,              \* what the open connection sees
    stored,          \* what the server has committed
    request,         \* SqlQuery.fetch: the report last asked for
    db_response,     \* SqlQuery.fetch: the rows last returned
    result,          \* DataBaseExtractor.result, the list extract returns
    extract_args,    \* the argument tuple of the latest extract call
    output_data,     \* what format_data returned
    args,            \* the command line
    env,             \* os.environ
    database_params, \* what retrieve_db_info returned
    files,           \* the file system: path -> parsed content
    log,             \* database.log
    result_file,     \* result.<format>, once written
    exit_status,     \* the status the process ended with
    trace            \* the components main has run, in order

inputVars == <<rooms, students>>
dbVars == <<db, stored>>
queryVars == <<request, db_response>>
extractVars == <<result, extract_args>>
formatVars == <<output_data>>
cliVars == <<args, env, database_params>>
procVars == <<files, log, result_file, exit_status, trace>>

vars == <<pc, inputVars, dbVars, queryVars, extractVars, formatVars, cliVars,
          procVars>>

(***************************************************************************)
(* Bounds of the model                                                     *)
(***************************************************************************)
MaxRoomRows == 2        \* rows of a rooms file (SpecLoad)
MaxStudentRows == 2     \* rows of a students file (SpecLoad)
MaxReportRooms == 2     \* room ids of SpecReports
MaxStudentId == 2       \* student ids of SpecReports
MaxRooms == 7           \* rooms of SpecLimit
MaxSortedStudents == 7  \* students of SpecLimit
MaxCalls == 2           \* calls of extract, or of create_tables, on one object
MaxAge == 1             \* oldest student, in whole years
CurYear == 2021         \* CURDATE()

None == <<>>
Some(v) == <<v>>

RoomNames == <<"A", "B", "C", "D", "E", "F", "G", "H", "I", "J">>
BirthYears == (CurYear - MaxAge)..CurYear
Sexes == {"M", "F"}

SeqsUpTo(S, n) == UNION {[1..k -> S] : k \in 0..n}
Min(a, b) == IF a <= b THEN a ELSE b

\* python: row.get(i, None)
Get(row, i) == IF i \in DOMAIN row THEN Some(row[i]) ELSE None

(***************************************************************************)
(* DataBaseEngine.TABLES: the constraints the server enforces on INSERT.   *)
(* Each operator answers whether mysql raises IntegrityError for the row.  *)
(***************************************************************************)
RoomsColumns == <<"id", "name">>
StudentsColumns == <<"id", "name", "birthday", "sex", "room">>

HasNull(value) == \E k \in DOMAIN value : value[k] = None

RoomsIntegrityError(view, value) ==
    \/ HasNull(value)                                       \* NOT NULL
    \/ \E r \in view.rooms : r.id = value[1][1]             \* PRIMARY KEY
    \/ \E r \in view.rooms : r.name = value[2][1]           \* UNIQUE KEY

\* the students table without its room_fk constraint
StudentsIntegrityErrorNoFk(view, value) ==
    \/ HasNull(value)
    \/ \E s \in view.students : s.id = value[1][1]

StudentsIntegrityError(view, value) ==
    \/ HasNull(value)                                       \* NOT NULL
    \/ \E s \in view.students : s.id = value[1][1]          \* PRIMARY KEY
    \/ ~ \E r \in view.rooms : r.id = value[5][1]           \* room_fk

\* cursor.execute(sql_msg, value) for one row, with `except IntegrityError:
\* continue` around it: the view after the row.
ExecuteInsert(view, sql_table, value) ==
    IF sql_table = "rooms"
    THEN IF RoomsIntegrityError(view, value) THEN view
         ELSE [view EXCEPT !.rooms = @ \cup
                 {[id |-> value[1][1], name |-> value[2][1]]}]
    ELSE IF StudentsIntegrityError(view, value) THEN view
         ELSE [view EXCEPT !.students = @ \cup
                 {[id |-> value[1][1], name |-> value[2][1],
                   birthday |-> value[3][1], sex |-> value[4][1],
                   room |-> value[5][1]]}]

\* DBDataLoader.add_data: the loop over the rows (db.commit() follows it in
\* the actions: stored' = db').
RECURSIVE add_data(_, _, _, _)
add_data(data, view, sql_table, sql_columns) ==
    IF data = <<>> THEN view
    ELSE LET row == Head(data)
             value == [k \in DOMAIN sql_columns |-> Get(row, sql_columns[k])]
         IN add_data(Tail(data), ExecuteInsert(view, sql_table, value),
                     sql_table, sql_columns)

\* the server's state: whether the database exists, its tables, their rows
NoDatabase ==
    [database |-> FALSE, tables |-> {}, rooms |-> {}, students |-> {}]
NoTables == [NoDatabase EXCEPT !.database = TRUE]
EmptyDb == [NoTables EXCEPT !.tables = {"rooms", "students"}]

(***************************************************************************)
(* DataBaseEngine.__init__ and DataBaseEngine.create_tables                *)
(*                                                                         *)
(* A log record is <<level, event, subject>>.                              *)
(***************************************************************************)
TableNames == {"rooms", "students"}

\* cursor.execute(table_description): the error the server answers with, if
\* any. fail is the set of tables whose statement the server refuses for a
\* reason of its own (no privilege, lost connection, ...).
ExecuteCreate(view, table_name, fail) ==
    IF table_name \in fail THEN "error"
    ELSE IF table_name \in view.tables THEN "ER_TABLE_EXISTS_ERROR"
    ELSE IF table_name = "students" /\ "rooms" \notin view.tables
         THEN "error"                       \* room_fk references no table
    ELSE "ok"

\* the except clause letting every error but ER_TABLE_EXISTS_ERROR escape
CreateTableRaising(st, table_name, fail) ==
    LET err == ExecuteCreate(st.view, table_name, fail)
    IN IF st.raised THEN st
       ELSE IF err = "ER_TABLE_EXISTS_ERROR"
       THEN [st EXCEPT !.log = Append(@, <<"INFO", "exists", table_name>>)]
       ELSE IF err = "error"
       THEN [st EXCEPT !.raised = TRUE]
       ELSE [st EXCEPT !.view.tables = @ \cup {table_name},
                       !.log = Append(@, <<"INFO", "created", table_name>>)]

\* one turn of the loop of create_tables: try / except mysql.connector.Error
\* / else. st is [view, log, raised].
CreateTable(st, table_name, fail) ==
    LET err == ExecuteCreate(st.view, table_name, fail)
    IN IF err = "ER_TABLE_EXISTS_ERROR"
       THEN [st EXCEPT !.log = Append(@, <<"INFO", "exists", table_name>>)]
       ELSE IF err = "error"
       THEN [st EXCEPT !.log = Append(@, <<"ERROR", "error", table_name>>)]
       ELSE [st EXCEPT !.view.tables = @ \cup {table_name},
                       !.log = Append(@, <<"INFO", "created", table_name>>)]

RECURSIVE create_tables(_, _, _)
create_tables(names, st, fail) ==
    IF names = <<>> THEN st
    ELSE create_tables(Tail(names), CreateTable(st, Head(names), fail), fail)

\* DataBaseEngine.__init__ up to the connection: create_database, whose
\* DatabaseError is caught and logged
create_database(st) ==
    IF st.view.database
    THEN [st EXCEPT !.log = Append(@, <<"INFO", "exists", "database">>)]
    ELSE [st EXCEPT !.view.database = TRUE,
                    !.log = Append(@, <<"INFO", "created", "database">>)]

(***************************************************************************)
(* CLIParser                                                               *)
(*                                                                         *)
(* A flag given on the command line is the one-element list argparse makes *)
(* of it (nargs=1), a flag not given is None.                              *)
(***************************************************************************)
OUTPUT_FORMATS == {"json", "xml"}

\* os.environ.get(name)
EnvGet(e, name) == e[name]

retrieve_db_info(a, e) ==
    [db_name |-> IF a.db_name # None THEN Some(a.db_name[1])
                 ELSE EnvGet(e, "DATABASE"),
     host |-> IF a.db_host # None THEN Some(a.db_host[1])
              ELSE EnvGet(e, "HOST"),
     user |-> IF a.db_password # None THEN Some(a.db_password[1])
              ELSE EnvGet(e, "PASSWORD"),
     password |-> IF a.db_password # None THEN Some(a.db_password[1])
                  ELSE EnvGet(e, "PASSWORD")]

\* FileExistsCheck, FileExistsCheck, OutputFormatCheck, in the order argparse
\* meets the positionals: the message of the first exception raised, or None
ParseError(a, fs) ==
    IF a.source_to_rooms_file \notin DOMAIN fs
    THEN Some(<<"ERROR", "not_found", a.source_to_rooms_file>>)
    ELSE IF a.source_to_students_file \notin DOMAIN fs
    THEN Some(<<"ERROR", "not_found", a.source_to_students_file>>)
    ELSE IF a.output_format \notin OUTPUT_FORMATS
    THEN Some(<<"ERROR", "not_supported", a.output_format>>)
    ELSE None

\* sys.exit() with no argument
ExitStatusOfSysExit == 0
\* an exception nobody catches ends the interpreter with status 1
ExitStatusOfTraceback == 1
\* main returns and the interpreter ends
ExitStatusOfReturn == 0

(***************************************************************************)
(* SqlQuery.SQL_MESSAGE: the four SELECT statements.                       *)
(*                                                                         *)
(* A result cell is tagged with its python type: <<"int", n>>,             *)
(* <<"str", s>> or <<"None">> (SQL NULL).                                  *)
(***************************************************************************)
IntCell(n) == <<"int", n>>
StrCell(s) == <<"str", s>>
Null == <<"None">>

\* FROM rooms LEFT JOIN students ON rooms.id = students.room GROUP BY
\* rooms.id: the joined rows of room r, which are its students, or one row with
\* a NULL student when it has none.
LeftJoin(view, r) ==
    LET matched == {s \in view.students : s.room = r.id}
    IN IF matched = {} THEN {[r |-> r, s |-> None]}
       ELSE {[r |-> r, s |-> Some(s)] : s \in matched}

\* TIMESTAMPDIFF(YEAR, students.birthday, CURDATE()); NULL for a NULL student
Age(j) == CurYear - j.s[1].birthday

\* COUNT(*): every row of the group
CountStar(g) == Cardinality(g)
\* COUNT(students.room): the rows of the group whose student is not NULL
CountRoom(g) == Cardinality({j \in g : j.s # None})

RECURSIVE SumAges(_)
SumAges(g) ==
    IF g = {} THEN 0
    ELSE LET j == CHOOSE x \in g : TRUE
         IN (IF j.s = None THEN 0 ELSE Age(j)) + SumAges(g \ {j})

\* CAST(AVG(...) AS UNSIGNED): AVG skips NULLs and is NULL over none; the
\* cast rounds the decimal to the nearest integer, halves up.
Average(g) ==
    LET n == CountRoom(g)
    IN IF n = 0 THEN Null
       ELSE IntCell((2 * SumAges(g) + n) \div (2 * n))

\* MAX(...) - MIN(...): NULL over no student
Diff(g) ==
    LET ages == {Age(j) : j \in {x \in g : x.s # None}}
    IN IF ages = {} THEN Null
       ELSE IntCell((CHOOSE a \in ages : \A b \in ages : b <= a)
                - (CHOOSE a \in ages : \A b \in ages : a <= b))

\* SUM(CASE when students.sex = X then 1 else 0 end)
SumSex(g, x) == Cardinality({j \in g : j.s # None /\ j.s[1].sex = x})

\* FORMAT(n, 0): the count as text (no thousands separator below 1000)
Format0(n) == StrCell(ToString(n))

\* ORDER BY on a nullable integer cell: NULL sorts below every value
CellLess(a, b) == IF b = Null THEN FALSE ELSE IF a = Null THEN TRUE
                  ELSE a[2] < b[2]

\* The server leaves the order of rows that tie on the ORDER BY expression
\* (or of all rows when there is none) open; scan is the order it happens to
\* visit the groups in, by ascending or by descending primary key.
ScanOrders == {"asc", "desc"}
ScanBefore(scan, x, y) == IF scan = "asc" THEN x.id < y.id ELSE x.id > y.id

\* the sequence of the rows of S in the total order Before
OrderBy(S, Before(_, _)) ==
    LET rank == [x \in S |-> Cardinality({y \in S : Before(y, x)})]
    IN [i \in 1..Cardinality(S) |-> CHOOSE x \in S : rank[x] = i - 1]

Limit(rows, n) == SubSeq(rows, 1, Min(n, Len(rows)))
Project(rows, Cells(_)) == [i \in DOMAIN rows |-> Cells(rows[i])]

\* one record per group, carrying every aggregate the four statements use
Groups(view) ==
    {LET g == LeftJoin(view, r)
     IN [id |-> r.id, name |-> r.name,
         count |-> CountRoom(g),
         average |-> Average(g),
         diff |-> Diff(g),
         female |-> SumSex(g, "F"),
         male |-> SumSex(g, "M")] :
        r \in {x \in view.rooms : LeftJoin(view, x) # {}}}

LimitAverage == 6
LimitDiff == 5

by_students(view, scan) ==
    LET Before(x, y) == ScanBefore(scan, x, y)
        Cells(g) == <<IntCell(g.id), StrCell(g.name), IntCell(g.count)>>
    IN Project(OrderBy(Groups(view), Before), Cells)

\* ORDER BY average DESC in place of ORDER BY average
by_minimal_average_age_desc(view, scan) ==
    LET Before(x, y) == \/ CellLess(y.average, x.average)
                        \/ x.average = y.average /\ ScanBefore(scan, x, y)
        Cells(g) == <<IntCell(g.id), StrCell(g.name), g.average>>
        having == {g \in Groups(view) : g.count > 0}
    IN Project(Limit(OrderBy(having, Before), LimitAverage), Cells)

by_minimal_average_age(view, scan) ==
    LET Before(x, y) == \/ CellLess(x.average, y.average)
                        \/ x.average = y.average /\ ScanBefore(scan, x, y)
        Cells(g) == <<IntCell(g.id), StrCell(g.name), g.average>>
        having == {g \in Groups(view) : g.count > 0}
    IN Project(Limit(OrderBy(having, Before), LimitAverage), Cells)

by_age_difference(view, scan) ==
    LET Before(x, y) == \/ CellLess(y.diff, x.diff)
                        \/ x.diff = y.diff /\ ScanBefore(scan, x, y)
        Cells(g) == <<IntCell(g.id), StrCell(g.name), g.diff>>
    IN Project(Limit(OrderBy(Groups(view), Before), LimitDiff),
               Cells)

that_have_both_sex_students(view) ==
    LET Before(x, y) == x.id < y.id
        Cells(g) == <<IntCell(g.id), StrCell(g.name), IntCell(g.count),
                      Format0(g.female), Format0(g.male)>>
        having == {g \in Groups(view) : g.male > 0 /\ g.female > 0}
    IN Project(OrderBy(having, Before), Cells)

ReportNames == <<"by_students", "by_minimal_average_age",
                 "by_age_difference", "that_have_both_sex_students">>

\* SqlQuery.fetch: cursor.execute(message); cursor.fetchall()
fetch(req, view, scan) ==
    CASE req = "by_students" -> by_students(view, scan)
      [] req = "by_minimal_average_age" -> by_minimal_average_age(view, scan)
      [] req = "by_age_difference" -> by_age_difference(view, scan)
      [] req = "that_have_both_sex_students" ->
            that_have_both_sex_students(view)

\* the key tuples of SqlQuery.SQL_MESSAGE
Keys(req) ==
    CASE req = "by_students" ->
            <<"room_id", "room_name", "number_of_students">>
      [] req = "by_minimal_average_age" ->
            <<"room_id", "room_name", "average_age">>
      [] req = "by_age_difference" ->
            <<"room_id", "room_name", "age_difference">>
      [] req = "that_have_both_sex_students" ->
            <<"room_id", "room_name", "number_of_students",
              "female_students_number", "male_students_number">>

(***************************************************************************)
(* DataBaseExtractor.extract                                               *)
(*                                                                         *)
(* An OrderedDict and a dict are sequences of <<key, value>> items.        *)
(***************************************************************************)
\* OrderedDict(zip(keys, value))
Zip(keys, value) ==
    [k \in 1..Min(Len(keys), Len(value)) |-> <<keys[k], value[k]>>]

\* the loop of extract over args, appending to self.result; res is
\* self.result as the call finds it, and the list it returns
RECURSIVE extract(_, _, _, _)
extract(a, view, scan, res) ==
    IF a = <<>> THEN res
    ELSE LET arg == Head(a)
             temp_result == fetch(arg, view, scan)
             keys == Keys(arg)
             records == [i \in DOMAIN temp_result |->
                            Zip(keys, temp_result[i])]
         IN extract(Tail(a), view, scan,
                    Append(res, <<<<arg, records>>>>))

(***************************************************************************)
(* DataToXmlFormatter.format_data and DataToJsonFormatter.format_data      *)
(*                                                                         *)
(* An element is [tag, text, children]; the model stops at the tree that   *)
(* Tree.tostring serialises.                                               *)
(***************************************************************************)
Element(tag, text, children) ==
    [tag |-> tag, text |-> text, children |-> children]

\* f"{v}"
PyStr(cell) ==
    CASE cell[1] = "int" -> ToString(cell[2])
      [] cell[1] = "str" -> cell[2]
      [] cell[1] = "None" -> "None"

\* h3 = SubElement(h2, 'data') and its children, one per item of the record
DataElement(record) ==
    Element("data", None,
            [k \in DOMAIN record |->
                Element(record[k][1], Some(PyStr(record[k][2])), <<>>)])

\* the records of every value of the dict, in order
RECURSIVE ValuesRecords(_)
ValuesRecords(type_of_sort) ==
    IF type_of_sort = <<>> THEN <<>>
    ELSE Head(type_of_sort)[2] \o ValuesRecords(Tail(type_of_sort))

\* h1 = Element('sort'): one sort_type_value per key; h2 is the one made
\* last, and every data element of the dict's values hangs under it
SortElement(type_of_sort) ==
    Element("sort", None,
            [k \in DOMAIN type_of_sort |->
                Element("sort_type_value", Some(type_of_sort[k][1]),
                        IF k = Len(type_of_sort)
                        THEN LET recs == ValuesRecords(type_of_sort)
                             IN [j \in DOMAIN recs |-> DataElement(recs[j])]
                        ELSE <<>>)])

\* h2 made once, for the first report, and reused for every later one
RECURSIVE AllRecords(_)
AllRecords(data) ==
    IF data = <<>> THEN <<>>
    ELSE ValuesRecords(Head(data)) \o AllRecords(Tail(data))

format_xml_shared_parent(data) ==
    Element("Result", None,
            [i \in DOMAIN data |->
                Element("sort", None,
                    <<Element("sort_type_value", Some(data[i][1][1]),
                        IF i = 1
                        THEN LET recs == AllRecords(data)
                             IN [j \in DOMAIN recs |-> DataElement(recs[j])]
                        ELSE <<>>)>>)])

format_xml(data) ==
    Element("Result", None, [i \in DOMAIN data |-> SortElement(data[i])])

\* json.dumps: a list becomes an array, a dict an object, and a cell a
\* number, a string or null
JsonCell(cell) ==
    CASE cell[1] = "int" -> <<"number", cell[2]>>
      [] cell[1] = "str" -> <<"string", cell[2]>>
      [] cell[1] = "None" -> <<"null">>

JsonRecord(record) ==
    <<"object", [k \in DOMAIN record |->
                    <<record[k][1], JsonCell(record[k][2])>>]>>

format_json(data) ==
    <<"array",
      [i \in DOMAIN data |->
        <<"object",
          [k \in DOMAIN data[i] |->
            <<data[i][k][1],
              <<"array", [j \in DOMAIN data[i][k][2] |->
                            JsonRecord(data[i][k][2][j])]>>>>]>>]>>

(***************************************************************************)
(* Inputs: what JsonReader.read_data can return for the two files.         *)
(***************************************************************************)
\* SpecLoad: rooms that may repeat an id or a name; students that may repeat
\* an id, name a room nobody has (3), or lack the room key altogether.
LoadRoomRows == [id : {1, 2}, name : {"A", "B"}]
LoadStudentRows ==
    [id : {1, 2}, name : {"X"}, birthday : {CurYear}, sex : {"F"},
     room : {1, 2, 3}]
    \cup [id : {1, 2}, name : {"X"}, birthday : {CurYear}, sex : {"F"}]

\* SpecReports: room i is called RoomNames[i]; students of every sex and age,
\* in any room or in one room beyond the last.
RoomRow(i) == [id |-> i, name |-> RoomNames[i]]
ReportRoomRows == {RoomRow(i) : i \in 1..MaxReportRooms}
ReportStudentRows ==
    [id : 1..MaxStudentId, name : {"X"}, birthday : BirthYears, sex : Sexes,
     room : 1..(MaxReportRooms + 1)]

\* SpecLimit: the rooms file lists rooms 1..MaxRooms; the students file is
\* grouped by room, with the youngest and the oldest age.
AllRooms == [i \in 1..MaxRooms |-> RoomRow(i)]
LastRoom(view) ==
    IF view.students = {} THEN 0
    ELSE CHOOSE n \in {s.room : s \in view.students} :
            \A s \in view.students : s.room <= n
SortedStudentRows(view) ==
    [id : {Cardinality(view.students) + 1}, name : {"X"},
     birthday : {CurYear - MaxAge, CurYear}, sex : {"F"},
     room : {LastRoom(view), LastRoom(view) + 1} \cap (1..MaxRooms)]

IdleLoader == rooms = <<>> /\ students = <<>>
IdleQuery == request = "" /\ db_response = <<>>
IdleExtract == result = <<>> /\ extract_args = <<>>
IdleFormat == output_data = None
IdleCli == args = None /\ env = None /\ database_params = None
IdleProc ==
    /\ files = None
    /\ log = <<>>
    /\ result_file = None
    /\ exit_status = None
    /\ trace = <<>>

(***************************************************************************)
(* SpecLoad: the loader run against an initially empty schema, twice.      *)
(***************************************************************************)
InitLoad ==
    /\ pc = "load_rooms"
    /\ rooms \in SeqsUpTo(LoadRoomRows, MaxRoomRows)
    /\ students \in SeqsUpTo(LoadStudentRows, MaxStudentRows)
    /\ db = EmptyDb
    /\ stored = EmptyDb
    /\ IdleQuery /\ IdleExtract /\ IdleFormat /\ IdleCli /\ IdleProc

\* data_loader.add_data(data=rooms, db=my_db, sql_table='rooms', ...)
AddRooms ==
    /\ pc \in {"load_rooms", "reload_rooms"}
    /\ db' = add_data(rooms, db, "rooms", RoomsColumns)
    /\ stored' = db'
    /\ pc' = IF pc = "load_rooms" THEN "load_students" ELSE "reload_students"
    /\ UNCHANGED <<inputVars, queryVars, extractVars, formatVars, cliVars,
                 procVars>>

\* data_loader.add_data(data=students, db=my_db, sql_table='students', ...)
AddStudents ==
    /\ pc \in {"load_students", "reload_students"}
    /\ db' = add_data(students, db, "students", StudentsColumns)
    /\ stored' = db'
    /\ pc' = IF pc = "load_students" THEN "reload_rooms" ELSE "loaded_twice"
    /\ UNCHANGED <<inputVars, queryVars, extractVars, formatVars, cliVars,
                 procVars>>

NextLoad == AddRooms \/ AddStudents

SpecLoad == InitLoad /\ [][NextLoad]_vars

(***************************************************************************)
(* SpecReports: files of one row are loaded in any order, then one report  *)
(* is fetched.                                                             *)
(***************************************************************************)
InitReports ==
    /\ pc = "ready"
    /\ IdleLoader
    /\ db = EmptyDb
    /\ stored = EmptyDb
    /\ IdleQuery /\ IdleExtract /\ IdleFormat /\ IdleCli /\ IdleProc

LoadRoom ==
    /\ pc = "ready"
    /\ \E row \in ReportRoomRows :
          db' = add_data(<<row>>, db, "rooms", RoomsColumns)
    /\ stored' = db'
    /\ UNCHANGED <<pc, inputVars, queryVars, extractVars, formatVars, cliVars,
                 procVars>>

LoadStudent ==
    /\ pc = "ready"
    /\ \E row \in ReportStudentRows :
          db' = add_data(<<row>>, db, "students", StudentsColumns)
    /\ stored' = db'
    /\ UNCHANGED <<pc, inputVars, queryVars, extractVars, formatVars, cliVars,
                 procVars>>

Fetch(req) ==
    /\ pc = "ready"
    /\ \E scan \in ScanOrders : db_response' = fetch(req, db, scan)
    /\ request' = req
    /\ pc' = "fetched"
    /\ UNCHANGED <<inputVars, dbVars, extractVars, formatVars, cliVars,
                 procVars>>

FetchAny == \E k \in DOMAIN ReportNames : Fetch(ReportNames[k])

NextReports == LoadRoom \/ LoadStudent \/ FetchAny

SpecReports == InitReports /\ [][NextReports]_vars

(***************************************************************************)
(* SpecLimit: more rooms than LIMIT 6, then the report it limits.           *)
(***************************************************************************)
LoadAllRooms ==
    /\ pc = "ready"
    /\ db.rooms = {}
    /\ db' = add_data(AllRooms, db, "rooms", RoomsColumns)
    /\ stored' = db'
    /\ UNCHANGED <<pc, inputVars, queryVars, extractVars, formatVars, cliVars,
                 procVars>>

LoadSortedStudent ==
    /\ pc = "ready"
    /\ Cardinality(db.students) < MaxSortedStudents
    /\ \E row \in SortedStudentRows(db) :
          db' = add_data(<<row>>, db, "students", StudentsColumns)
    /\ stored' = db'
    /\ UNCHANGED <<pc, inputVars, queryVars, extractVars, formatVars, cliVars,
                 procVars>>

FetchLimited == Fetch("by_minimal_average_age")

NextLimit == LoadAllRooms \/ LoadSortedStudent \/ FetchLimited

SpecLimit == InitReports /\ [][NextLimit]_vars

(***************************************************************************)
(* SpecExtract: one extractor over a loaded database; extract is called    *)
(* up to MaxCalls times, then its result is formatted.                     *)
(***************************************************************************)
\* students 1 and 2 share room 1, 3 and 4 room 2, ...; sexes and ages
\* alternate
FixtureStudent(i) ==
    [id |-> i, name |-> "X", birthday |-> CurYear - ((i - 1) % (MaxAge + 1)),
     sex |-> IF i % 2 = 1 THEN "F" ELSE "M", room |-> ((i - 1) \div 2) + 1]
FixtureRooms == {[i \in 1..n |-> RoomRow(i)] : n \in 0..MaxReportRooms}
FixtureStudents ==
    {[i \in 1..n |-> FixtureStudent(i)] : n \in 0..MaxStudentId}

ExtractArgs ==
    {<<"by_students">>, <<"by_age_difference", "by_students">>, ReportNames}

InitExtract ==
    /\ pc = "ready"
    /\ rooms \in FixtureRooms
    /\ students \in FixtureStudents
    /\ db = add_data(students,
                     add_data(rooms, EmptyDb, "rooms", RoomsColumns),
                     "students", StudentsColumns)
    /\ stored = db
    /\ IdleQuery /\ IdleExtract /\ IdleFormat /\ IdleCli /\ IdleProc

\* data_extractor.extract(args)
Extract ==
    /\ pc = "ready"
    /\ Len(trace) < MaxCalls
    /\ \E a \in ExtractArgs, scan \in ScanOrders :
          /\ result' = extract(a, db, scan, result)
          /\ extract_args' = a
    /\ trace' = Append(trace, "extract")
    /\ UNCHANGED <<pc, inputVars, dbVars, queryVars, formatVars, cliVars,
                   files, log, result_file, exit_status>>

\* DataToXmlFormatter(result).format_data()
FormatXml ==
    /\ pc = "ready"
    /\ output_data' = Some(format_xml(result))
    /\ pc' = "formatted_xml"
    /\ UNCHANGED <<inputVars, dbVars, queryVars, extractVars, cliVars,
                   procVars>>

\* DataToJsonFormatter(result).format_data()
FormatJson ==
    /\ pc = "ready"
    /\ output_data' = Some(format_json(result))
    /\ pc' = "formatted_json"
    /\ UNCHANGED <<inputVars, dbVars, queryVars, extractVars, cliVars,
                   procVars>>

NextExtract == Extract \/ FormatXml \/ FormatJson

SpecExtract == InitExtract /\ [][NextExtract]_vars

(***************************************************************************)
(* SpecSchema: create_tables called up to MaxCalls times on one engine.    *)
(***************************************************************************)
TableArgs == SeqsUpTo(TableNames, 2)

InitSchema ==
    /\ pc = "ready"
    /\ IdleLoader
    /\ db \in {NoTables, [NoTables EXCEPT !.tables = {"rooms"}], EmptyDb}
    /\ stored = db
    /\ IdleQuery /\ IdleExtract /\ IdleFormat /\ IdleCli /\ IdleProc

\* my_db.create_tables(*names); a CREATE TABLE commits by itself
CreateTables ==
    /\ pc = "ready"
    /\ Len(trace) < MaxCalls
    /\ \E names \in TableArgs, fail \in SUBSET TableNames :
          LET st == create_tables(names,
                                  [view |-> db, log |-> log, raised |-> FALSE],
                                  fail)
          IN /\ db' = st.view
             /\ stored' = st.view
             /\ log' = st.log
             /\ pc' = IF st.raised THEN "raised" ELSE pc
             /\ trace' = Append(trace, names)
    /\ UNCHANGED <<inputVars, queryVars, extractVars, formatVars, cliVars,
                   files, result_file, exit_status>>

NextSchema == CreateTables

SpecSchema == InitSchema /\ [][NextSchema]_vars

(***************************************************************************)
(* SpecDbInfo: retrieve_db_info over every choice of flags and variables.  *)
(***************************************************************************)
Flag(v) == {None, <<v>>}
FlagArgs ==
    [source_to_rooms_file : {"rooms.json"},
     source_to_students_file : {"students.json"},
     output_format : {"json"},
     db_name : Flag("cli_name"), db_host : Flag("cli_host"),
     db_user : Flag("cli_user"), db_password : Flag("cli_password")]
Environments ==
    [DATABASE : {None, Some("env_name")}, HOST : {None, Some("env_host")},
     USER : {None, Some("env_user")}, PASSWORD : {None, Some("env_password")}]

InitDbInfo ==
    /\ pc = "ready"
    /\ IdleLoader
    /\ db = EmptyDb
    /\ stored = EmptyDb
    /\ IdleQuery /\ IdleExtract /\ IdleFormat /\ IdleProc
    /\ args \in FlagArgs
    /\ env \in Environments
    /\ database_params = None

\* cli_parser.retrieve_db_info()
RetrieveDbInfo ==
    /\ pc = "ready"
    /\ database_params' = Some(retrieve_db_info(args, env))
    /\ pc' = "retrieved"
    /\ UNCHANGED <<inputVars, dbVars, queryVars, extractVars, formatVars,
                   args, env, procVars>>

NextDbInfo == RetrieveDbInfo

SpecDbInfo == InitDbInfo /\ [][NextDbInfo]_vars

(***************************************************************************)
(* SpecMain: one run of main(), from the command line to the exit status.  *)
(***************************************************************************)
\* main with the files read and parsed ahead of the engine
MainStepsReaderFirst ==
    <<"parse_args", "retrieve_db_info", "read_rooms", "read_students",
      "parse_rooms", "parse_students", "engine", "create_tables",
      "add_rooms", "add_students", "extract", "write_data">>

\* the statements of main, in order
MainSteps ==
    <<"parse_args", "retrieve_db_info", "engine", "create_tables",
      "read_rooms", "read_students", "parse_rooms", "parse_students",
      "add_rooms", "add_students", "extract", "write_data">>

Start == MainSteps[1]
After(step) ==
    LET k == CHOOSE i \in DOMAIN MainSteps : MainSteps[i] = step
    IN IF k = Len(MainSteps) THEN "done" ELSE MainSteps[k + 1]

\* a file holds a JSON array (Some(the parsed list)) or no JSON at all (None)
RoomFiles == {None} \cup {Some(x) : x \in FixtureRooms}
StudentFiles == {None} \cup {Some(x) : x \in FixtureStudents}
FileSystems ==
    {("rooms.json" :> r) @@ ("students.json" :> s) :
        r \in RoomFiles, s \in StudentFiles}

MainArgs ==
    [source_to_rooms_file : {"rooms.json", "nope.json"},
     source_to_students_file : {"students.json", "nope.json"},
     output_format : {"json", "xml", "yaml"},
     db_name : {None}, db_host : {None}, db_user : {None},
     db_password : {None}]

InitMain ==
    /\ pc = Start
    /\ IdleLoader
    /\ stored \in {NoDatabase, NoTables, EmptyDb}
    /\ db = stored
    /\ IdleQuery /\ IdleExtract /\ IdleFormat
    /\ args \in MainArgs
    /\ env = [DATABASE |-> Some("env_name"), HOST |-> Some("env_host"),
              USER |-> Some("env_user"), PASSWORD |-> Some("env_password")]
    /\ database_params = None
    /\ files \in FileSystems
    /\ log = <<>>
    /\ result_file = None
    /\ exit_status = None
    /\ trace = <<>>

\* an exception that nothing catches
Crash ==
    /\ pc' = "crashed"
    /\ exit_status' = Some(ExitStatusOfTraceback)

\* options = cli_parser.parse_args(): the except clause logs the error and
\* calls sys.exit()
ParseArgs ==
    /\ pc = "parse_args"
    /\ trace' = Append(trace, pc)
    /\ LET error == ParseError(args, files)
       IN IF error # None
          THEN /\ log' = Append(log, error[1])
               /\ exit_status' = Some(ExitStatusOfSysExit)
               /\ pc' = "exited"
          ELSE /\ pc' = After(pc)
               /\ UNCHANGED <<log, exit_status>>
    /\ UNCHANGED <<inputVars, dbVars, queryVars, extractVars, formatVars,
                   cliVars, files, result_file>>

\* database_params = cli_parser.retrieve_db_info()
MainRetrieveDbInfo ==
    /\ pc = "retrieve_db_info"
    /\ trace' = Append(trace, pc)
    /\ database_params' = Some(retrieve_db_info(args, env))
    /\ pc' = After(pc)
    /\ UNCHANGED <<inputVars, dbVars, queryVars, extractVars, formatVars,
                   args, env, files, log, result_file, exit_status>>

\* my_db = DataBaseEngine(**database_params): create_database, then
\* connect_database, which the server may refuse
Engine ==
    /\ pc = "engine"
    /\ trace' = Append(trace, pc)
    /\ LET st == create_database([view |-> db, log |-> log])
       IN /\ db' = st.view
          /\ stored' = st.view
          /\ \E connected \in BOOLEAN :
                IF connected
                THEN /\ log' = Append(st.log, <<"INFO", "connected", "database">>)
                     /\ pc' = After(pc)
                     /\ UNCHANGED exit_status
                ELSE /\ log' = st.log
                     /\ Crash
    /\ UNCHANGED <<inputVars, queryVars, extractVars, formatVars, cliVars,
                   files, result_file>>

\* my_db.create_tables('rooms', 'students')
MainCreateTables ==
    /\ pc = "create_tables"
    /\ trace' = Append(trace, pc)
    /\ \E fail \in SUBSET TableNames :
          LET st == create_tables(<<"rooms", "students">>,
                                  [view |-> db, log |-> log, raised |-> FALSE],
                                  fail)
          IN /\ db' = st.view
             /\ stored' = st.view
             /\ log' = st.log
             /\ IF st.raised THEN Crash
                ELSE pc' = After(pc) /\ UNCHANGED exit_status
    /\ UNCHANGED <<inputVars, queryVars, extractVars, formatVars, cliVars,
                   files, result_file>>

\* rooms_file_data = FileReader.read_file(options.source_to_rooms_file)
ReadRooms ==
    /\ pc = "read_rooms"
    /\ trace' = Append(trace, pc)
    /\ rooms' = <<"file_data", files[args.source_to_rooms_file]>>
    /\ pc' = After(pc)
    /\ UNCHANGED <<students, dbVars, queryVars, extractVars, formatVars,
                   cliVars, files, log, result_file, exit_status>>

\* students_file_data = FileReader.read_file(options.source_to_students_file)
ReadStudents ==
    /\ pc = "read_students"
    /\ trace' = Append(trace, pc)
    /\ students' = <<"file_data", files[args.source_to_students_file]>>
    /\ pc' = After(pc)
    /\ UNCHANGED <<rooms, dbVars, queryVars, extractVars, formatVars,
                   cliVars, files, log, result_file, exit_status>>

\* rooms = data_reader.read_data(rooms_file_data): json.loads raises on text
\* that is no JSON
ParseRooms ==
    /\ pc = "parse_rooms"
    /\ trace' = Append(trace, pc)
    /\ IF rooms[2] = None
       THEN Crash /\ UNCHANGED rooms
       ELSE rooms' = rooms[2][1] /\ pc' = After(pc) /\ UNCHANGED exit_status
    /\ UNCHANGED <<students, dbVars, queryVars, extractVars, formatVars,
                   cliVars, files, log, result_file>>

\* students = data_reader.read_data(students_file_data)
ParseStudents ==
    /\ pc = "parse_students"
    /\ trace' = Append(trace, pc)
    /\ IF students[2] = None
       THEN Crash /\ UNCHANGED students
       ELSE /\ students' = students[2][1]
            /\ pc' = After(pc)
            /\ UNCHANGED exit_status
    /\ UNCHANGED <<rooms, dbVars, queryVars, extractVars, formatVars,
                   cliVars, files, log, result_file>>

\* data_loader.add_data(data=rooms, ...); an INSERT into a table that does
\* not exist raises ProgrammingError, which add_data does not catch
MainAddRooms ==
    /\ pc = "add_rooms"
    /\ trace' = Append(trace, pc)
    /\ IF "rooms" \in db.tables \/ rooms = <<>>
       THEN /\ db' = add_data(rooms, db, "rooms", RoomsColumns)
            /\ stored' = db'
            /\ pc' = After(pc)
            /\ UNCHANGED exit_status
       ELSE Crash /\ UNCHANGED dbVars
    /\ UNCHANGED <<inputVars, queryVars, extractVars, formatVars, cliVars,
                   files, log, result_file>>

\* data_loader.add_data(data=students, ...)
MainAddStudents ==
    /\ pc = "add_students"
    /\ trace' = Append(trace, pc)
    /\ IF "students" \in db.tables \/ students = <<>>
       THEN /\ db' = add_data(students, db, "students", StudentsColumns)
            /\ stored' = db'
            /\ pc' = After(pc)
            /\ UNCHANGED exit_status
       ELSE Crash /\ UNCHANGED dbVars
    /\ UNCHANGED <<inputVars, queryVars, extractVars, formatVars, cliVars,
                   files, log, result_file>>

\* data_extractor = DataBaseExtractor(my_db), whose result is the empty
\* list, and result = data_extractor.extract(tuple(SQL_MESSAGE.keys())); a
\* SELECT from a table that does not exist raises ProgrammingError
MainExtract ==
    /\ pc = "extract"
    /\ trace' = Append(trace, pc)
    /\ IF TableNames \subseteq db.tables
       THEN /\ \E scan \in ScanOrders :
                  result' = extract(ReportNames, db, scan, <<>>)
            /\ extract_args' = ReportNames
            /\ log' = Append(log, <<"INFO", "completed", "queries">>)
            /\ pc' = After(pc)
            /\ UNCHANGED exit_status
       ELSE Crash /\ UNCHANGED <<extractVars, log>>
    /\ UNCHANGED <<inputVars, dbVars, queryVars, formatVars, cliVars,
                   files, result_file>>

\* output_data_writer.write_data(data=result, output_format=...): the
\* formatter of the format, then the file result.<format>; main returns
WriteData ==
    /\ pc = "write_data"
    /\ trace' = Append(trace, pc)
    /\ output_data' = Some(IF args.output_format = "json"
                           THEN format_json(result) ELSE format_xml(result))
    /\ result_file' = Some([name |-> <<"result", args.output_format>>,
                            content |-> output_data'[1]])
    /\ log' = Append(log, <<"INFO", "created", "result_file">>)
    /\ pc' = After(pc)
    /\ exit_status' = Some(ExitStatusOfReturn)
    /\ UNCHANGED <<inputVars, dbVars, queryVars, extractVars, cliVars,
                   files>>

NextMain ==
    \/ ParseArgs \/ MainRetrieveDbInfo \/ Engine \/ MainCreateTables
    \/ ReadRooms \/ ReadStudents \/ ParseRooms \/ ParseStudents
    \/ MainAddRooms \/ MainAddStudents \/ MainExtract \/ WriteData

SpecMain == InitMain /\ [][NextMain]_vars

(***************************************************************************)
(* Properties of the loader (SpecLoad)                                     *)
(***************************************************************************)
Distinct(seq, key) ==
    \A i, j \in DOMAIN seq : seq[i][key] = seq[j][key] => i = j

\* a valid input pair respects the data model: room ids, room names and
\* student ids are unique
ValidInput ==
    /\ Distinct(rooms, "id")
    /\ Distinct(rooms, "name")
    /\ Distinct(students, "id")

MatchesRoomId(row) ==
    /\ "room" \in DOMAIN row
    /\ \E k \in DOMAIN rooms : rooms[k].id = row.room

PersistedStudents(eng) ==
    \A i \in DOMAIN students :
        IF MatchesRoomId(students[i])
        THEN /\ students[i] \in eng.students
             /\ Cardinality({s \in eng.students : s.id = students[i].id}) = 1
        ELSE students[i] \notin eng.students

\* C1: after rooms and then students of a valid input pair are loaded into
\* an empty database, the committed students are exactly the input students
\* whose room matches a room id, each once; loading both files again keeps
\* that and adds no student row.
C1_LoadSkipsDanglingStudents ==
    [][/\ (ValidInput /\ pc' \in {"reload_rooms", "loaded_twice"})
            => PersistedStudents(stored')
       /\ pc \in {"reload_rooms", "reload_students"}
            => stored'.students = stored.students]_vars

C1_Witness ==
    /\ pc = "loaded_twice"
    /\ ValidInput
    /\ \E i \in DOMAIN students : ~ MatchesRoomId(students[i])
    /\ \E i \in DOMAIN students : students[i] \in stored.students

(***************************************************************************)
(* Properties of the reports (SpecReports, SpecLimit)                      *)
(***************************************************************************)
HasStudents(eng, r) == \E s \in eng.students : s.room = r.id
RowsOfRoom(rows, r) == {i \in DOMAIN rows : rows[i][1] = IntCell(r.id)}

RECURSIVE SumColumn(_, _)
SumColumn(rows, k) ==
    IF rows = <<>> THEN 0 ELSE Head(rows)[k][2] + SumColumn(Tail(rows), k)

\* C5: by_students has exactly one row per committed room, a room without
\* students has the count 0, and the counts add up to the number of
\* committed students.
C5_ByStudentsCoversEveryRoom ==
    (pc = "fetched" /\ request = "by_students") =>
        /\ Len(db_response) = Cardinality(stored.rooms)
        /\ \A r \in stored.rooms :
              /\ Cardinality(RowsOfRoom(db_response, r)) = 1
              /\ ~ HasStudents(stored, r) =>
                    \A i \in RowsOfRoom(db_response, r) :
                        db_response[i][3] = IntCell(0)
        /\ SumColumn(db_response, 3) = Cardinality(stored.students)

C5_Witness ==
    /\ pc = "fetched"
    /\ request = "by_students"
    /\ \E r \in stored.rooms : ~ HasStudents(stored, r)
    /\ \E r \in stored.rooms :
          Cardinality({s \in stored.students : s.room = r.id}) = 2

\* C6: a room without students has a row in by_students and in no other
\* report.
C6_EmptyRoomOnlyInByStudents ==
    pc = "fetched" =>
        \A r \in stored.rooms :
            ~ HasStudents(stored, r) =>
                (RowsOfRoom(db_response, r) # {} <=> request = "by_students")

\* C7: by_minimal_average_age has at most 6 rows, each of a room with at
\* least one student, in ascending order of the average age.
C7_MinimalAverageAge ==
    (pc = "fetched" /\ request = "by_minimal_average_age") =>
        /\ Len(db_response) <= 6
        /\ \A i \in DOMAIN db_response :
              \E r \in stored.rooms :
                  /\ i \in RowsOfRoom(db_response, r)
                  /\ HasStudents(stored, r)
        /\ \A i, j \in DOMAIN db_response :
              i < j => db_response[i][3][2] <= db_response[j][3][2]

C7_Witness ==
    /\ pc = "fetched"
    /\ request = "by_minimal_average_age"
    /\ Cardinality({r \in stored.rooms : HasStudents(stored, r)}) > 6
    /\ Len(db_response) = 6
    /\ db_response[1][3][2] < db_response[6][3][2]

(***************************************************************************)
(* Properties of the extractor and of the XML formatter (SpecExtract)      *)
(***************************************************************************)
\* C2: what extract returns has one {report_name: records} pair per name of
\* its argument, in the order given, each record pairing the report's keys
\* with the cells of one fetched row; also for a repeated call.
C2_ExtractOnePairPerName ==
    trace # <<>> =>
        /\ Len(result) = Len(extract_args)
        /\ \A i \in DOMAIN result \cap DOMAIN extract_args :
              /\ Len(result[i]) = 1
              /\ result[i][1][1] = extract_args[i]
              /\ \E scan \in ScanOrders :
                    LET rows == fetch(extract_args[i], stored, scan)
                        records == result[i][1][2]
                        keys == Keys(extract_args[i])
                    IN /\ Len(records) = Len(rows)
                       /\ \A j \in DOMAIN records :
                             /\ Len(records[j]) = Len(keys)
                             /\ \A k \in DOMAIN keys :
                                   records[j][k] = <<keys[k], rows[j][k]>>

\* the text the claim expects for a value
Stringified(cell) ==
    IF cell = Null THEN "None"
    ELSE IF cell[1] = "str" THEN cell[2] ELSE ToString(cell[2])

\* C10: the tree has the root Result with one sort child per report result,
\* in order; a sort has exactly one sort_type_value child, whose text is the
\* report's name and whose children are one data element per record of that
\* report, in order, each with one child per key (tag = key, text = the
\* stringified value).
C10_XmlTreeFollowsTheResult ==
    pc = "formatted_xml" =>
        LET root == output_data[1]
        IN /\ root.tag = "Result"
           /\ Len(root.children) = Len(result)
           /\ \A i \in DOMAIN result :
                LET sort == root.children[i]
                    name == result[i][1][1]
                    records == result[i][1][2]
                IN /\ sort.tag = "sort"
                   /\ Len(sort.children) = 1
                   /\ sort.children[1].tag = "sort_type_value"
                   /\ sort.children[1].text = Some(name)
                   /\ Len(sort.children[1].children) = Len(records)
                   /\ \A j \in DOMAIN records :
                        LET data == sort.children[1].children[j]
                        IN /\ data.tag = "data"
                           /\ Len(data.children) = Len(records[j])
                           /\ \A k \in DOMAIN records[j] :
                                /\ data.children[k].tag = records[j][k][1]
                                /\ data.children[k].text =
                                     Some(Stringified(records[j][k][2]))
                                /\ data.children[k].children = <<>>

C10_Witness ==
    /\ pc = "formatted_xml"
    /\ Len(result) = 4
    /\ Len(result[1][1][2]) = 2
    /\ \E i \in DOMAIN result : Len(result[i][1][2]) = 1
    /\ \E j \in DOMAIN result[3][1][2] : result[3][1][2][j][3][2] = Null

(***************************************************************************)
(* Properties of the schema manager (SpecSchema) and of the command line   *)
(* (SpecDbInfo)                                                            *)
(***************************************************************************)
\* C8, amended: a call of create_tables never raises and logs one record per name, in
\* order: INFO for a table that exists or was created, ERROR for any other
\* failure, whose table is left uncreated; the tables it adds are those it
\* logs as created, a call without an error leaves every named table in
\* place, and a call that names only existing tables changes nothing.
C8_CreateTablesNeverAborts ==
    [][trace' # trace =>
        LET names == trace'[Len(trace')]
            entry(k) == log'[Len(log) + k]
        IN /\ pc' # "raised"
           /\ Len(log') = Len(log) + Len(names)
           /\ \A k \in DOMAIN names :
                 /\ entry(k)[3] = names[k]
                 /\ entry(k)[2] \in {"exists", "created", "error"}
                 /\ entry(k)[1] = IF entry(k)[2] = "error" THEN "ERROR"
                                  ELSE "INFO"
                 /\ entry(k)[2] = "exists" => names[k] \in db'.tables
                 /\ names[k] \in db.tables => entry(k)[2] # "created"
           /\ db'.tables = db.tables
                 \cup {names[k] : k \in {j \in DOMAIN names :
                                            entry(j)[2] = "created"}}
           /\ (\A k \in DOMAIN names : entry(k)[2] # "error")
                 => \A k \in DOMAIN names : names[k] \in db'.tables
           /\ (\A k \in DOMAIN names : names[k] \in db.tables)
                 => db' = db]_vars

\* C8 as stated: create_tables is idempotent, a second call with the same
\* names (such as 'rooms', 'students') creates nothing.
C8_SecondCallChangesNothing ==
    (Len(trace) >= 2 /\ trace[1] = trace[2]) =>
        \A k \in (Len(trace[1]) + 1)..(2 * Len(trace[1])) :
            k \in DOMAIN log => log[k][2] # "created"

C8_Witness ==
    /\ trace = <<<<"rooms", "students">>, <<"rooms", "students">>>>
    /\ log = <<<<"INFO", "created", "rooms">>,
               <<"INFO", "created", "students">>,
               <<"INFO", "exists", "rooms">>,
               <<"INFO", "exists", "students">>>>

\* C9: each connection parameter is its own flag when the flag is given and
\* its own environment variable otherwise.
OwnValue(flag, variable) == IF flag # None THEN Some(flag[1]) ELSE variable

C9_EachParameterFromItsOwnFlag ==
    pc = "retrieved" =>
        /\ database_params[1].db_name = OwnValue(args.db_name, env.DATABASE)
        /\ database_params[1].host = OwnValue(args.db_host, env.HOST)
        /\ database_params[1].user = OwnValue(args.db_user, env.USER)
        /\ database_params[1].password =
              OwnValue(args.db_password, env.PASSWORD)

(***************************************************************************)
(* Properties of main (SpecMain)                                           *)
(***************************************************************************)
BadArguments ==
    \/ args.source_to_rooms_file \notin DOMAIN files
    \/ args.source_to_students_file \notin DOMAIN files
    \/ args.output_format \notin {"json", "xml"}

\* C3: with a missing input file or an unsupported format the run logs the
\* error and exits while parsing the arguments: no result file, and an exit
\* status that is not zero.
C3_BadArgumentsExitNonZero ==
    (BadArguments /\ pc # "parse_args") =>
        /\ pc = "exited"
        /\ trace = <<"parse_args">>
        /\ Len(log) = 1 /\ log[1][1] = "ERROR"
        /\ result_file = None
        /\ exit_status # None
        /\ exit_status # Some(0)

Earlier(step, j) == \E i \in 1..(j - 1) : trace[i] = step
Ordered(Rank(_)) ==
    \A i, j \in DOMAIN trace : i < j => Rank(trace[i]) <= Rank(trace[j])

\* the order the claim gives: arguments, reader, schema manager, loader of
\* rooms, loader of students, extractor, formatter and write
ClaimedRank(step) ==
    CASE step \in {"parse_args", "retrieve_db_info"} -> 1
      [] step \in {"read_rooms", "read_students", "parse_rooms",
                   "parse_students"} -> 2
      [] step \in {"engine", "create_tables"} -> 3
      [] step = "add_rooms" -> 4
      [] step = "add_students" -> 5
      [] step = "extract" -> 6
      [] step = "write_data" -> 7

\* C4 as stated: the steps of every run follow the claimed order, and no
\* schema is created before both inputs have been read and parsed.
C4_ReaderBeforeSchemaManager ==
    /\ Ordered(ClaimedRank)
    /\ \A j \in DOMAIN trace :
          trace[j] \in {"engine", "create_tables"} =>
              Earlier("parse_rooms", j) /\ Earlier("parse_students", j)

\* the order of the code: the schema manager runs before the reader
CodeRank(step) ==
    CASE step \in {"parse_args", "retrieve_db_info"} -> 1
      [] step \in {"engine", "create_tables"} -> 2
      [] step \in {"read_rooms", "read_students", "parse_rooms",
                   "parse_students"} -> 3
      [] step = "add_rooms" -> 4
      [] step = "add_students" -> 5
      [] step = "extract" -> 6
      [] step = "write_data" -> 7

\* C4, amended: the steps of every run follow the order arguments, schema
\* manager, reader, loader of rooms, loader of students, extractor,
\* formatter and write; no input is read or parsed before the database and
\* its tables have been created, and a run that ends normally has taken
\* every step.
C4_SchemaManagerBeforeReader ==
    /\ Ordered(CodeRank)
    /\ \A i, j \in DOMAIN trace : trace[i] = trace[j] => i = j
    /\ \A j \in DOMAIN trace :
          trace[j] \in {"read_rooms", "read_students", "parse_rooms",
                        "parse_students"} =>
              Earlier("engine", j) /\ Earlier("create_tables", j)
    /\ pc = "done" =>
          /\ {trace[i] : i \in DOMAIN trace} =
                {"parse_args", "retrieve_db_info", "engine", "create_tables",
                 "read_rooms", "read_students", "parse_rooms",
                 "parse_students", "add_rooms", "add_students", "extract",
                 "write_data"}
          /\ result_file # None

C4_Witness ==
    /\ pc = "done"
    /\ Len(trace) = 12
    /\ stored.rooms # {}
    /\ stored.students # {}
    /\ result_file # None

====
